---- MODULE Spec2Model ----
(***************************************************************************)
(* A model of syllabus/curricula/sequential.py:                            *)
(*   - SequentialCurriculum, the flat task sequencer (SpecSeq);            *)
(*   - SequentialMetaCurriculum, the phase orchestrator, with its          *)
(*     stopping-condition parser (Spec, and SpecCond for two phases under  *)
(*     a wider set of condition strings).                                  *)
(* Python lists are modelled as sequences; Python indices are 0-based, so  *)
(* list[i] is written At(list, i).  A call that raises is modelled by the  *)
(* state the object is left in plus the name of the exception in `ret`.    *)
(***************************************************************************)
EXTENDS Integers, Sequences, FiniteSets, TLC

\* ------------------------------------------------------------------ bounds
\* longest task_list / num_repeats given to SequentialCurriculum
MaxTasks == 2
\* largest entry of num_repeats
MaxRepeat == 2
\* largest k passed to sample(k), besides the whole-cycle sizes
MaxK == 2
\* largest m for which sample(sum(num_repeats) * m) is called
MaxCycles == 2
\* number of sample calls made on one SequentialCurriculum
MaxCalls == 4

\* number of update_on_episode calls made on one SequentialMetaCurriculum
MaxUpdates == 3
\* number of sample calls made on one SequentialMetaCurriculum
MaxSamples == 1

\* The task lists given to SequentialCurriculum: the sequencer never inspects a
\* task, so a list stands for all lists with the same pattern of equal tasks;
\* these are the prefixes of a, b, a, b, ...
TaskLists == {[i \in 1..n |-> IF i % 2 = 1 THEN "a" ELSE "b"] : n \in 0..MaxTasks}

\* ----------------------------------------------------------------- helpers
\* Python list[i], 0-based
At(list, i) == list[i + 1]

\* Python sum(list)
RECURSIVE Sum(_)
Sum(list) == IF list = <<>> THEN 0 ELSE Head(list) + Sum(Tail(list))

\* Python list[i:], 0-based; empty when i >= len(list)
SliceFrom(list, i) ==
    IF i >= Len(list) THEN <<>> ELSE SubSeq(list, i + 1, Len(list))

\* Python [x] * n
Repeat(x, n) == [i \in 1..n |-> x]

\* all sequences over S of length 0..n
SeqsUpTo(S, n) == UNION {[1..m -> S] : m \in 0..n}

\* An optional argument: None is the empty tuple, a given value x is <<x>>
None == <<>>
Some(x) == <<x>>

\* no exception was raised
NoError == "none"

\* ------------------------------------------------- SequentialCurriculum
\* SequentialCurriculum.__init__: the object after construction
SequentialCurriculum(tl, nr, rl) ==
    [task_list     |-> tl,
     num_repeats   |-> IF nr # None THEN nr[1] ELSE Repeat(1, Len(tl)),
     repeat_list   |-> rl,
     _task_index   |-> 0,
     _repeat_index |-> 0]

\* The body of one iteration of sample's for loop, from the exhaustion check on.
\* r = [self, tasks, raised]; an iteration after a raise does not run.
\* Variant: moves to the next task only when _repeat_index exceeds the count (> for >=)
SampleStep_Strict(r) ==
    LET self == r.self
        \* lines 36-39: wrap the cursor, raise when the list does not repeat
        wrapped  == self._task_index >= Len(self.task_list)
        s1       == IF wrapped THEN [self EXCEPT !._task_index = 0] ELSE self
    IN  IF wrapped /\ ~self.repeat_list
        THEN [self |-> s1, tasks |-> r.tasks, raised |-> "ValueError"]
        \* line 42: task_list[_task_index] of an empty list
        ELSE IF s1._task_index >= Len(s1.task_list)
        THEN [self |-> s1, tasks |-> r.tasks, raised |-> "IndexError"]
        ELSE LET tasks2 == Append(r.tasks, At(s1.task_list, s1._task_index))
                 s2     == [s1 EXCEPT !._repeat_index = @ + 1]
             IN  \* line 46: num_repeats[_task_index] past the end of num_repeats
                 IF s2._task_index >= Len(s2.num_repeats)
                 THEN [self |-> s2, tasks |-> tasks2, raised |-> "IndexError"]
                 ELSE IF s2._repeat_index > At(s2.num_repeats, s2._task_index)
                 THEN [self   |-> [s2 EXCEPT !._task_index = @ + 1,
                                             !._repeat_index = 0],
                       tasks  |-> tasks2, raised |-> NoError]
                 ELSE [self |-> s2, tasks |-> tasks2, raised |-> NoError]

\* Variant: the exhaustion error is raised before _task_index is wrapped to 0
SampleStep_RaiseFirst(r) ==
    LET self == r.self
        wrapped  == self._task_index >= Len(self.task_list)
        s1       == IF wrapped THEN [self EXCEPT !._task_index = 0] ELSE self
    IN  IF wrapped /\ ~self.repeat_list
        THEN [self |-> self, tasks |-> r.tasks, raised |-> "ValueError"]
        ELSE IF s1._task_index >= Len(s1.task_list)
        THEN [self |-> s1, tasks |-> r.tasks, raised |-> "IndexError"]
        ELSE LET tasks2 == Append(r.tasks, At(s1.task_list, s1._task_index))
                 s2     == [s1 EXCEPT !._repeat_index = @ + 1]
             IN  IF s2._task_index >= Len(s2.num_repeats)
                 THEN [self |-> s2, tasks |-> tasks2, raised |-> "IndexError"]
                 ELSE IF s2._repeat_index >= At(s2.num_repeats, s2._task_index)
                 THEN [self   |-> [s2 EXCEPT !._task_index = @ + 1,
                                             !._repeat_index = 0],
                       tasks  |-> tasks2, raised |-> NoError]
                 ELSE [self |-> s2, tasks |-> tasks2, raised |-> NoError]

\* Variant: _repeat_index is not set back when the cursor moves to the next task
SampleStep_KeepRepeat(r) ==
    LET self == r.self
        wrapped  == self._task_index >= Len(self.task_list)
        s1       == IF wrapped THEN [self EXCEPT !._task_index = 0] ELSE self
    IN  IF wrapped /\ ~self.repeat_list
        THEN [self |-> s1, tasks |-> r.tasks, raised |-> "ValueError"]
        ELSE IF s1._task_index >= Len(s1.task_list)
        THEN [self |-> s1, tasks |-> r.tasks, raised |-> "IndexError"]
        ELSE LET tasks2 == Append(r.tasks, At(s1.task_list, s1._task_index))
                 s2     == [s1 EXCEPT !._repeat_index = @ + 1]
             IN  IF s2._task_index >= Len(s2.num_repeats)
                 THEN [self |-> s2, tasks |-> tasks2, raised |-> "IndexError"]
                 ELSE IF s2._repeat_index >= At(s2.num_repeats, s2._task_index)
                 THEN [self   |-> [s2 EXCEPT !._task_index = @ + 1],
                       tasks  |-> tasks2, raised |-> NoError]
                 ELSE [self |-> s2, tasks |-> tasks2, raised |-> NoError]

SampleStep(r) ==
    LET self == r.self
        \* lines 36-39: wrap the cursor, raise when the list does not repeat
        wrapped  == self._task_index >= Len(self.task_list)
        s1       == IF wrapped THEN [self EXCEPT !._task_index = 0] ELSE self
    IN  IF wrapped /\ ~self.repeat_list
        THEN [self |-> s1, tasks |-> r.tasks, raised |-> "ValueError"]
        \* line 42: task_list[_task_index] of an empty list
        ELSE IF s1._task_index >= Len(s1.task_list)
        THEN [self |-> s1, tasks |-> r.tasks, raised |-> "IndexError"]
        ELSE LET tasks2 == Append(r.tasks, At(s1.task_list, s1._task_index))
                 s2     == [s1 EXCEPT !._repeat_index = @ + 1]
             IN  \* line 46: num_repeats[_task_index] past the end of num_repeats
                 IF s2._task_index >= Len(s2.num_repeats)
                 THEN [self |-> s2, tasks |-> tasks2, raised |-> "IndexError"]
                 ELSE IF s2._repeat_index >= At(s2.num_repeats, s2._task_index)
                 THEN [self   |-> [s2 EXCEPT !._task_index = @ + 1,
                                             !._repeat_index = 0],
                       tasks  |-> tasks2, raised |-> NoError]
                 ELSE [self |-> s2, tasks |-> tasks2, raised |-> NoError]

\* for _ in range(k): the loop stops at the first exception
\* Variant: the loop runs k - 1 times
RECURSIVE SampleLoop_OneShort(_, _)
SampleLoop_OneShort(r, k) ==
    IF k <= 1 \/ r.raised # NoError THEN r ELSE SampleLoop_OneShort(SampleStep(r), k - 1)

RECURSIVE SampleLoop(_, _)
SampleLoop(r, k) ==
    IF k <= 0 \/ r.raised # NoError THEN r ELSE SampleLoop(SampleStep(r), k - 1)

\* SequentialCurriculum.sample(k): the object afterwards, and what the caller
\* gets: the exception raised, or the list returned
\* Variant: each call counts the repeats of the current task from 0 again
SeqSample_FreshRepeat(self, k) ==
    LET r == SampleLoop([self   |-> [self EXCEPT !._repeat_index = 0],
                         tasks  |-> <<>>,
                         raised |-> NoError], k)
    IN  [self   |-> r.self,
         raised |-> r.raised,
         value  |-> IF r.raised = NoError THEN r.tasks
                    ELSE IF r.raised = "ValueError" THEN Sum(self.num_repeats)
                    ELSE <<>>]

SeqSample(self, k) ==
    LET r == SampleLoop([self |-> self, tasks |-> <<>>, raised |-> NoError], k)
    IN  [self   |-> r.self,
         raised |-> r.raised,
         value  |-> IF r.raised = NoError THEN r.tasks
                    ELSE IF r.raised = "ValueError" THEN Sum(self.num_repeats)
                    ELSE <<>>]

\* SequentialCurriculum.remaining_tasks(): the exception raised, or the count
\* Variant: the slice starts at _task_index, counting the current task twice
SeqRemainingTasks_Overlap(self) ==
    IF self._task_index >= Len(self.task_list)
    THEN [raised |-> NoError, value |-> 0]
    ELSE IF self._task_index >= Len(self.num_repeats)
    THEN [raised |-> "IndexError", value |-> <<>>]
    ELSE [raised |-> NoError,
          value  |-> (At(self.num_repeats, self._task_index) - self._repeat_index)
                     + Sum(SliceFrom(self.num_repeats, self._task_index))]

SeqRemainingTasks(self) ==
    IF self._task_index >= Len(self.task_list)
    THEN [raised |-> NoError, value |-> 0]
    ELSE IF self._task_index >= Len(self.num_repeats)
    THEN [raised |-> "IndexError", value |-> <<>>]
    ELSE [raised |-> NoError,
          value  |-> (At(self.num_repeats, self._task_index) - self._repeat_index)
                     + Sum(SliceFrom(self.num_repeats, self._task_index + 1))]

\* --------------------------------------------- strings and the re module
\* A Python str is the sequence of its characters, each a one-character string.
steps == <<"s", "t", "e", "p", "s">>
episodes == <<"e", "p", "i", "s", "o", "d", "e", "s">>
episode_return ==
    <<"e", "p", "i", "s", "o", "d", "e", "_", "r", "e", "t", "u", "r", "n">>

\* c in str
Contains(str, c) == \E i \in 1..Len(str) : str[i] = c

\* re.split(re.escape(c), str) for a one-character c: the pieces between the
\* occurrences of c, empty pieces included
RECURSIVE SplitOn(_, _, _)
SplitOn(str, c, piece) ==
    IF str = <<>> THEN <<piece>>
    ELSE IF Head(str) = c THEN <<piece>> \o SplitOn(Tail(str), c, <<>>)
    ELSE SplitOn(Tail(str), c, Append(piece, Head(str)))

\* The comparator '(<=|>=|=|<|>)' matches at the head of str, <<>> if none does:
\* the alternatives are tried in the order the pattern lists them
\* Variant: the pattern lists the one-character comparators first
ComparatorAt_ShortFirst(str) ==
    IF Len(str) >= 1 /\ str[1] = "=" THEN <<"=">>
    ELSE IF Len(str) >= 1 /\ str[1] = "<" THEN <<"<">>
    ELSE IF Len(str) >= 1 /\ str[1] = ">" THEN <<">">>
    ELSE IF Len(str) >= 2 /\ str[1] = "<" /\ str[2] = "=" THEN <<"<", "=">>
    ELSE IF Len(str) >= 2 /\ str[1] = ">" /\ str[2] = "=" THEN <<">", "=">>
    ELSE <<>>

ComparatorAt(str) ==
    IF Len(str) >= 2 /\ str[1] = "<" /\ str[2] = "=" THEN <<"<", "=">>
    ELSE IF Len(str) >= 2 /\ str[1] = ">" /\ str[2] = "=" THEN <<">", "=">>
    ELSE IF Len(str) >= 1 /\ str[1] = "=" THEN <<"=">>
    ELSE IF Len(str) >= 1 /\ str[1] = "<" THEN <<"<">>
    ELSE IF Len(str) >= 1 /\ str[1] = ">" THEN <<">">>
    ELSE <<>>

\* re.split('(<=|>=|=|<|>)', str): the pieces between the leftmost matches, with
\* each matched comparator (the capturing group) between them
RECURSIVE SplitComparators(_, _)
SplitComparators(str, piece) ==
    IF str = <<>> THEN <<piece>>
    ELSE LET m == ComparatorAt(str)
         IN  IF m # <<>>
             THEN <<piece, m>> \o SplitComparators(SubSeq(str, Len(m) + 1, Len(str)), <<>>)
             ELSE SplitComparators(Tail(str), Append(piece, Head(str)))

\* The decimal digits, '0' first
Digits == <<"0", "1", "2", "3", "4", "5", "6", "7", "8", "9">>
IsDigit(c) == \E i \in 1..10 : Digits[i] = c
DigitValue(c) == (CHOOSE i \in 1..10 : Digits[i] = c) - 1

\* the number a string of digits writes (0 for the empty string)
RECURSIVE DigitsValue(_, _)
DigitsValue(str, acc) ==
    IF str = <<>> THEN acc ELSE DigitsValue(Tail(str), 10 * acc + DigitValue(Head(str)))

RECURSIVE Pow10(_)
Pow10(n) == IF n <= 0 THEN 1 ELSE 10 * Pow10(n - 1)

\* float(str), for the literals made of digits and at most one '.': the value as
\* the fraction num/den, or ok = FALSE where float raises ValueError.  Signs,
\* exponents, whitespace, underscores, inf and nan are not among the inputs.
Float(str) ==
    LET dots   == {i \in 1..Len(str) : str[i] = "."}
        digits == {i \in 1..Len(str) : IsDigit(str[i])}
    IN  IF digits = {} \/ Cardinality(dots) > 1
           \/ dots \cup digits # 1..Len(str)
        THEN [ok |-> FALSE, num |-> 0, den |-> 1]
        ELSE IF dots = {}
        THEN [ok |-> TRUE, num |-> DigitsValue(str, 0), den |-> 1]
        ELSE LET d == CHOOSE i \in dots : TRUE
             IN  [ok  |-> TRUE,
                  num |-> DigitsValue(SubSeq(str, 1, d - 1) \o SubSeq(str, d + 1, Len(str)), 0),
                  den |-> Pow10(Len(str) - d)]

\* ---------------------------------------------- SequentialMetaCurriculum
\* The metric accessors read the ledger m = [n_steps, n_episodes, episode_returns];
\* a metric value is the fraction num/den.
_get_steps(m) == [num |-> m.n_steps, den |-> 1]

_get_episodes(m) == [num |-> m.n_episodes, den |-> 1]

_get_episode_return(m) ==
    IF Len(m.episode_returns) > 0
    THEN [num |-> Sum(m.episode_returns), den |-> Len(m.episode_returns)]
    ELSE [num |-> 0, den |-> 1]

\* metric_fn(): the accessor a clause was bound to
MetricValue(metric, m) ==
    IF metric = steps THEN _get_steps(m)
    ELSE IF metric = episodes THEN _get_episodes(m)
    ELSE _get_episode_return(m)

\* x <comparator> y on fractions with positive denominators
\* Variant: '>=' compares with >
Compare_Strict(x, comparator, y) ==
    LET l == x.num * y.den
        r == y.num * x.den
    IN  IF comparator = <<"<">> THEN l < r
        ELSE IF comparator = <<">">> THEN l > r
        ELSE IF comparator = <<"<", "=">> THEN l <= r
        ELSE IF comparator = <<">", "=">> THEN l > r
        ELSE l = r

Compare(x, comparator, y) ==
    LET l == x.num * y.den
        r == y.num * x.den
    IN  IF comparator = <<"<">> THEN l < r
        ELSE IF comparator = <<">">> THEN l > r
        ELSE IF comparator = <<"<", "=">> THEN l <= r
        ELSE IF comparator = <<">", "=">> THEN l >= r
        ELSE l = r

\* _parse_condition_string(condition): the exception raised, or the callable
\* returned.
\* Variant: '&' is looked for before '|'
_parse_condition_string_AndFirst(condition) ==
    IF Contains(condition, "&")
    THEN [raised |-> NoError, kind |-> "all",
          conditions |-> SplitOn(condition, "&", <<>>)]
    ELSE IF Contains(condition, "|")
    THEN [raised |-> NoError, kind |-> "any",
          conditions |-> SplitOn(condition, "|", <<>>)]
    ELSE LET clauses == SplitComparators(condition, <<>>)
         IN  IF Len(clauses) # 3
             THEN [raised |-> "ValueError", kind |-> "none"]
             ELSE IF clauses[1] \notin {steps, episodes, episode_return}
             THEN [raised |-> "ValueError", kind |-> "none"]
             ELSE IF clauses[2] \notin {<<"<">>, <<">">>, <<"<", "=">>, <<">", "=">>, <<"=">>}
             THEN [raised |-> "ValueError", kind |-> "none"]
             ELSE [raised |-> NoError, kind |-> "clause", metric |-> clauses[1],
                   comparator |-> clauses[2], value |-> clauses[3]]

\* _parse_condition_string(condition): the exception raised, or the callable
\* returned.  The lambdas of the composite branches hold the split strings and
\* parse them when called; the lambda of a clause holds the value string and
\* converts it when called.
_parse_condition_string(condition) ==
    IF Contains(condition, "|")
    THEN [raised |-> NoError, kind |-> "any",
          conditions |-> SplitOn(condition, "|", <<>>)]
    ELSE IF Contains(condition, "&")
    THEN [raised |-> NoError, kind |-> "all",
          conditions |-> SplitOn(condition, "&", <<>>)]
    ELSE LET clauses == SplitComparators(condition, <<>>)
         IN  \* line 127: unpacking anything but three clauses raises ValueError
             IF Len(clauses) # 3
             THEN [raised |-> "ValueError", kind |-> "none"]
             ELSE IF clauses[1] \notin {steps, episodes, episode_return}
             THEN [raised |-> "ValueError", kind |-> "none"]
             ELSE IF clauses[2] \notin {<<"<">>, <<">">>, <<"<", "=">>, <<">", "=">>, <<"=">>}
             THEN [raised |-> "ValueError", kind |-> "none"]
             ELSE [raised |-> NoError, kind |-> "clause", metric |-> clauses[1],
                   comparator |-> clauses[2], value |-> clauses[3]]

\* Calling a stopping condition on the ledger m: "True", "False", or the
\* exception raised.  any() and all() stop at the first deciding item, and at
\* the first exception.
RECURSIVE Call(_, _)
RECURSIVE CallAny(_, _)
RECURSIVE CallAll(_, _)
Call(fn, m) ==
    IF fn.kind = "callable" THEN fn.result
    ELSE IF fn.kind = "any" THEN CallAny(fn.conditions, m)
    ELSE IF fn.kind = "all" THEN CallAll(fn.conditions, m)
    ELSE LET v == Float(fn.value)
         IN  IF ~v.ok THEN "ValueError"
             ELSE IF Compare(MetricValue(fn.metric, m), fn.comparator, v)
             THEN "True" ELSE "False"

CallAny(conditions, m) ==
    IF conditions = <<>> THEN "False"
    ELSE LET fn == _parse_condition_string(Head(conditions))
             b  == IF fn.raised # NoError THEN fn.raised ELSE Call(fn, m)
         IN  IF b = "False" THEN CallAny(Tail(conditions), m) ELSE b

CallAll(conditions, m) ==
    IF conditions = <<>> THEN "True"
    ELSE LET fn == _parse_condition_string(Head(conditions))
             b  == IF fn.raised # NoError THEN fn.raised ELSE Call(fn, m)
         IN  IF b = "True" THEN CallAll(Tail(conditions), m) ELSE b

\* _parse_stopping_conditions: items are [type |-> "callable", result], [type
\* |-> "str", str] or [type |-> "other"]; the list of callables, or ValueError
RECURSIVE _parse_stopping_conditions(_)
_parse_stopping_conditions(items) ==
    IF items = <<>> THEN [raised |-> NoError, list |-> <<>>]
    ELSE LET item == Head(items)
             fn   == IF item.type = "callable"
                     THEN [raised |-> NoError, kind |-> "callable", result |-> item.result]
                     ELSE IF item.type = "str" THEN _parse_condition_string(item.str)
                     ELSE [raised |-> "ValueError", kind |-> "none"]
         IN  IF fn.raised # NoError THEN [raised |-> fn.raised, list |-> <<>>]
             ELSE LET rest == _parse_stopping_conditions(Tail(items))
                  IN  IF rest.raised # NoError THEN rest
                      ELSE [raised |-> NoError, list |-> <<fn>> \o rest.list]

\* _parse_curriculum_list: items are [type |-> "Curriculum", ...] objects, kept
\* as they are, or [type |-> "other"], which raises ValueError
_parse_curriculum_list(items) ==
    IF \E i \in 1..Len(items) : items[i].type # "Curriculum"
    THEN [raised |-> "ValueError", list |-> <<>>]
    ELSE [raised |-> NoError, list |-> items]

\* SequentialMetaCurriculum.__init__: the exception raised, or the object
\* Variant: one stopping condition per sub-curriculum is asked for
SequentialMetaCurriculum_OnePerPhase(curricula, conditions) ==
    LET failed(e) == [raised |-> e, curriculum_list |-> <<>>, stopping_conditions |-> <<>>]
    IN  IF ~(Len(curricula) > 0) THEN failed("AssertionError")
        ELSE IF ~(Len(conditions) = Len(curricula)) THEN failed("AssertionError")
        ELSE LET cl == _parse_curriculum_list(curricula)
             IN  IF cl.raised # NoError THEN failed(cl.raised)
                 ELSE LET sc == _parse_stopping_conditions(conditions)
                      IN  IF sc.raised # NoError THEN failed(sc.raised)
                          ELSE [raised |-> NoError,
                                curriculum_list |-> cl.list,
                                stopping_conditions |-> sc.list]

SequentialMetaCurriculum(curricula, conditions) ==
    LET failed(e) == [raised |-> e, curriculum_list |-> <<>>, stopping_conditions |-> <<>>]
    IN  IF ~(Len(curricula) > 0) THEN failed("AssertionError")
        ELSE IF ~(Len(conditions) = Len(curricula) - 1) THEN failed("AssertionError")
        ELSE LET cl == _parse_curriculum_list(curricula)
             IN  IF cl.raised # NoError THEN failed(cl.raised)
                 ELSE LET sc == _parse_stopping_conditions(conditions)
                      IN  IF sc.raised # NoError THEN failed(sc.raised)
                          ELSE [raised |-> NoError,
                                curriculum_list |-> cl.list,
                                stopping_conditions |-> sc.list]

\* TaskSpace.encode / TaskSpace.decode: a task space tags the task with its name
encode(task_space, task) == <<task_space, task>>
decode(task_space, encoding) == encoding[2]

\* The ledger a stopping condition reads
Ledger(self) ==
    [n_steps |-> self.n_steps, n_episodes |-> self.n_episodes,
     episode_returns |-> self.episode_returns]

\* line 197: whether the active phase is not the last and its stopping condition
\* holds: "True", "False", or the exception the condition raised
\* Variant: the last phase is left as well
ShouldStop_NoClamp(self) ==
    IF self._curriculum_index < Len(self.stopping_conditions)
    THEN Call(At(self.stopping_conditions, self._curriculum_index), Ledger(self))
    ELSE "True"

ShouldStop(self) ==
    IF self._curriculum_index < Len(self.stopping_conditions)
    THEN Call(At(self.stopping_conditions, self._curriculum_index), Ledger(self))
    ELSE "False"

\* lines 198-201: enter the next phase with a reset ledger
\* Variant: a second transition when the next condition holds of the reset ledger
Transition_Skip(self) ==
    LET s2 == [self EXCEPT !._curriculum_index = @ + 1,
                           !.n_episodes = 0,
                           !.n_steps = 0,
                           !.episode_returns = <<>>]
    IN  IF ShouldStop(s2) = "True"
        THEN [s2 EXCEPT !._curriculum_index = @ + 1]
        ELSE s2

\* Variant: n_steps is not reset
Transition_KeepSteps(self) ==
    [self EXCEPT !._curriculum_index = @ + 1,
                 !.n_episodes = 0,
                 !.episode_returns = <<>>]

\* Variant: the lifetime totals are reset too
Transition_ResetTotals(self) ==
    [self EXCEPT !._curriculum_index = @ + 1,
                 !.n_episodes = 0,
                 !.n_steps = 0,
                 !.total_episodes = 0,
                 !.total_steps = 0,
                 !.episode_returns = <<>>]

Transition(self) ==
    [self EXCEPT !._curriculum_index = @ + 1,
                 !.n_episodes = 0,
                 !.n_steps = 0,
                 !.episode_returns = <<>>]

\* SequentialMetaCurriculum.update_on_episode: the object afterwards and the
\* exception raised, if any (by the stopping condition, after the counters moved)
\* Variant: the update draws the next task from the active sub-curriculum
update_on_episode_Presample(self, ep_return, ep_len) ==
    LET i  == self._curriculum_index
        r  == SeqSample(At(self.curriculum_list, i).self, 1)
        s1 == [self EXCEPT !.n_episodes = @ + 1,
                           !.total_episodes = @ + 1,
                           !.n_steps = @ + ep_len,
                           !.total_steps = @ + ep_len,
                           !.episode_returns = Append(@, ep_return),
                           !.curriculum_list[i + 1].self = r.self]
        stop == ShouldStop(s1)
    IN  IF stop = "True" THEN [raised |-> NoError, self |-> Transition(s1)]
        ELSE IF stop = "False" THEN [raised |-> NoError, self |-> s1]
        ELSE [raised |-> stop, self |-> s1]

update_on_episode(self, ep_return, ep_len) ==
    LET s1 == [self EXCEPT !.n_episodes = @ + 1,
                           !.total_episodes = @ + 1,
                           !.n_steps = @ + ep_len,
                           !.total_steps = @ + ep_len,
                           !.episode_returns = Append(@, ep_return)]
        stop == ShouldStop(s1)
    IN  IF stop = "True" THEN [raised |-> NoError, self |-> Transition(s1)]
        ELSE IF stop = "False" THEN [raised |-> NoError, self |-> s1]
        ELSE [raised |-> stop, self |-> s1]

\* SequentialMetaCurriculum.sample(k): the object afterwards (the active
\* sub-curriculum has moved), the exception raised or the recoded tasks, and the
\* index of the sub-curriculum whose sample was called
\* Variant: the tasks are encoded in the sub-curriculum's own task space
MetaSample_OwnSpace(self, k) ==
    LET i          == self._curriculum_index
        curriculum == At(self.curriculum_list, i)
        r          == SeqSample(curriculum.self, k)
        after      == [self EXCEPT !.curriculum_list[i + 1].self = r.self]
    IN  IF r.raised # NoError
        THEN [self |-> after, raised |-> r.raised, value |-> <<>>, curriculum |-> i]
        ELSE [self |-> after, raised |-> NoError, curriculum |-> i,
              value |-> [j \in 1..Len(r.value) |->
                            encode(curriculum.task_space,
                                   decode(curriculum.task_space, r.value[j]))]]

MetaSample(self, k) ==
    LET i          == self._curriculum_index
        curriculum == At(self.curriculum_list, i)
        r          == SeqSample(curriculum.self, k)
        after      == [self EXCEPT !.curriculum_list[i + 1].self = r.self]
    IN  IF r.raised # NoError
        THEN [self |-> after, raised |-> r.raised, value |-> <<>>, curriculum |-> i]
        ELSE [self |-> after, raised |-> NoError, curriculum |-> i,
              value |-> [j \in 1..Len(r.value) |->
                            encode(self.task_space,
                                   decode(curriculum.task_space, r.value[j]))]]

\* -------------------------------------------------------------- the state
VARIABLES
    \* the fields of one SequentialCurriculum
    task_list, num_repeats, repeat_list, _task_index, _repeat_index,
    \* the num_repeats argument it was constructed with (None when omitted)
    num_repeats_arg,
    \* the last call made on it: [op, k, raised, value]
    ret,
    \* the number of sample calls made on it so far
    n_calls,
    \* whether every sample call so far was sample(1)
    only_single,
    \* the number of sample calls that returned a list
    n_returned,
    \* whether a sample call has raised the exhaustion error
    exhausted,
    \* the fields of one SequentialMetaCurriculum
    curriculum_list, stopping_conditions, _curriculum_index,
    n_steps, total_steps, n_episodes, total_episodes, episode_returns,
    \* what its construction raised, and the curriculum_list and the
    \* stopping_conditions it was given
    constructed, curricula_arg, conditions_arg,
    \* the last call made on it: [op, raised, value, curriculum, ep_return, ep_len]
    mret,
    \* the number of update_on_episode calls, and the sum of their episode_len
    n_updates, sum_len,
    \* the <<episode_return, episode_len>> of the updates since the last transition
    phase_log,
    \* the number of sample calls made on the orchestrator
    n_samples

seqVars == <<task_list, num_repeats, repeat_list, _task_index, _repeat_index,
             num_repeats_arg, ret, n_calls, only_single, n_returned, exhausted>>

metaVars == <<curriculum_list, stopping_conditions, _curriculum_index,
              n_steps, total_steps, n_episodes, total_episodes, episode_returns,
              constructed, curricula_arg, conditions_arg, mret, n_updates, sum_len, phase_log,
              n_samples>>

vars == <<seqVars, metaVars>>

\* no SequentialMetaCurriculum has been constructed
NoMeta ==
    /\ curriculum_list = <<>> /\ stopping_conditions = <<>> /\ _curriculum_index = 0
    /\ n_steps = 0 /\ total_steps = 0 /\ n_episodes = 0 /\ total_episodes = 0
    /\ episode_returns = <<>>
    /\ constructed = "unconstructed" /\ curricula_arg = <<>> /\ conditions_arg = <<>>
    /\ mret = [op |-> "none"]
    /\ n_updates = 0 /\ sum_len = 0 /\ phase_log = <<>> /\ n_samples = 0

\* no SequentialCurriculum has been constructed on its own
NoSeq ==
    /\ task_list = <<>> /\ num_repeats = <<>> /\ repeat_list = FALSE
    /\ _task_index = 0 /\ _repeat_index = 0
    /\ num_repeats_arg = None
    /\ ret = [op |-> "none"]
    /\ n_calls = 0 /\ only_single = TRUE /\ n_returned = 0 /\ exhausted = FALSE

\* the sequencer object held in the variables
Self ==
    [task_list     |-> task_list,
     num_repeats   |-> num_repeats,
     repeat_list   |-> repeat_list,
     _task_index   |-> _task_index,
     _repeat_index |-> _repeat_index]

\* the arguments num_repeats is constructed with
NumRepeatsArgs == {None} \cup {Some(nr) : nr \in SeqsUpTo(0..MaxRepeat, MaxTasks)}

\* a SequentialCurriculum right after construction
SeqInit ==
    \E tl \in TaskLists, nr \in NumRepeatsArgs, rl \in BOOLEAN :
        LET self == SequentialCurriculum(tl, nr, rl)
        IN  /\ task_list = self.task_list
            /\ num_repeats = self.num_repeats
            /\ repeat_list = self.repeat_list
            /\ _task_index = self._task_index
            /\ _repeat_index = self._repeat_index
            /\ num_repeats_arg = nr
            /\ ret = [op |-> "__init__", k |-> 0, raised |-> NoError, value |-> <<>>]
            /\ n_calls = 0
            /\ only_single = TRUE
            /\ n_returned = 0
            /\ exhausted = FALSE
            /\ NoMeta

\* the sizes sample is called with: 0..MaxK and the whole multiples of a cycle
SampleSizes == (0..MaxK) \cup {Sum(num_repeats) * m : m \in 1..MaxCycles}

\* a call of sample(k)
Sample(k) ==
    /\ n_calls < MaxCalls
    /\ LET r == SeqSample(Self, k)
       IN  /\ _task_index' = r.self._task_index
           /\ _repeat_index' = r.self._repeat_index
           /\ ret' = [op |-> "sample", k |-> k, raised |-> r.raised, value |-> r.value]
           /\ n_calls' = n_calls + 1
           /\ only_single' = (only_single /\ k = 1)
           /\ n_returned' = n_returned + (IF r.raised = NoError THEN 1 ELSE 0)
           /\ exhausted' = (exhausted \/ r.raised = "ValueError")
    /\ UNCHANGED <<task_list, num_repeats, repeat_list, num_repeats_arg>>
    /\ UNCHANGED metaVars

\* a call of remaining_tasks()
RemainingTasks ==
    /\ LET r == SeqRemainingTasks(Self)
       IN  ret' = [op |-> "remaining_tasks", k |-> 0, raised |-> r.raised, value |-> r.value]
    /\ UNCHANGED <<task_list, num_repeats, repeat_list, _task_index, _repeat_index,
                   num_repeats_arg, n_calls, only_single, n_returned, exhausted>>
    /\ UNCHANGED metaVars

SeqNext ==
    \/ \E k \in SampleSizes : Sample(k)
    \/ RemainingTasks

SpecSeq == SeqInit /\ [][SeqNext]_vars

\* ------------------------------------- the orchestrator: inputs and actions
\* The orchestrator's own task space
EnvSpace == "env"

\* The sub-curricula: SequentialCurriculum objects over their own task spaces
PhaseA ==
    [type |-> "Curriculum", task_space |-> "A",
     self |-> SequentialCurriculum(<<encode("A", "a"), encode("A", "b")>>, None, TRUE)]
PhaseB ==
    [type |-> "Curriculum", task_space |-> "B",
     self |-> SequentialCurriculum(<<encode("B", "b")>>, Some(<<2>>), TRUE)]
PhaseC ==
    [type |-> "Curriculum", task_space |-> "C",
     self |-> SequentialCurriculum(<<encode("C", "c")>>, None, FALSE)]
\* an item that is no curriculum, task space or task
NotACurriculum == [type |-> "other"]

\* the curriculum_list arguments
CurriculumLists ==
    {<<>>, <<PhaseA>>, <<PhaseA, PhaseB>>, <<PhaseA, PhaseB, PhaseC>>,
     <<PhaseA, NotACurriculum>>}

\* a str stopping condition, a callable one returning b, and an item that is neither
Str(str) == [type |-> "str", str |-> str]
Callable(b) == [type |-> "callable", result |-> b]
NotACondition == [type |-> "other"]

GE == <<">", "=">>
LE == <<"<", "=">>

\* the stopping conditions the orchestrator of Spec is given
StoppingConditions ==
    {Str(episodes \o GE \o <<"2">>),
     Str(episodes \o GE \o <<"1">>),
     Str(episodes \o LE \o <<"3">>),
     Str(episode_return \o <<">">> \o <<"1">>),
     Str(steps \o GE \o <<"3">> \o <<"|">> \o episodes \o GE \o <<"2">>),
     Callable("False"),
     NotACondition}

\* the state after SequentialMetaCurriculum(curricula, conditions)
MetaConstructed(curricula, conditions) ==
    LET self == SequentialMetaCurriculum(curricula, conditions)
    IN  /\ constructed = self.raised
        /\ curricula_arg = curricula
        /\ conditions_arg = conditions
        /\ curriculum_list = self.curriculum_list
        /\ stopping_conditions = self.stopping_conditions
        /\ _curriculum_index = 0
        /\ n_steps = 0 /\ total_steps = 0 /\ n_episodes = 0 /\ total_episodes = 0
        /\ episode_returns = <<>>
        /\ mret = [op |-> "__init__", raised |-> self.raised]
        /\ n_updates = 0 /\ sum_len = 0 /\ phase_log = <<>> /\ n_samples = 0

Init ==
    /\ \E curricula \in CurriculumLists,
          conditions \in SeqsUpTo(StoppingConditions, 2) :
          MetaConstructed(curricula, conditions)
    /\ NoSeq

\* the orchestrator held in the variables
MetaSelf ==
    [curriculum_list     |-> curriculum_list,
     stopping_conditions |-> stopping_conditions,
     _curriculum_index   |-> _curriculum_index,
     n_steps             |-> n_steps,
     total_steps         |-> total_steps,
     n_episodes          |-> n_episodes,
     total_episodes      |-> total_episodes,
     episode_returns     |-> episode_returns,
     task_space          |-> EnvSpace]

\* the episode returns and episode lengths reported to the orchestrator
Returns == {0, 2}
EpisodeLens == {1, 2}

\* a call of update_on_episode(ep_return, ep_len, ...)
UpdateOnEpisode(ep_return, ep_len) ==
    /\ constructed = NoError
    /\ n_updates < MaxUpdates
    /\ LET r == update_on_episode(MetaSelf, ep_return, ep_len)
       IN  /\ curriculum_list' = r.self.curriculum_list
           /\ stopping_conditions' = r.self.stopping_conditions
           /\ _curriculum_index' = r.self._curriculum_index
           /\ n_steps' = r.self.n_steps
           /\ total_steps' = r.self.total_steps
           /\ n_episodes' = r.self.n_episodes
           /\ total_episodes' = r.self.total_episodes
           /\ episode_returns' = r.self.episode_returns
           /\ mret' = [op |-> "update_on_episode", raised |-> r.raised,
                       ep_return |-> ep_return, ep_len |-> ep_len]
           /\ phase_log' = IF r.self._curriculum_index # _curriculum_index
                           THEN <<>>
                           ELSE Append(phase_log, <<ep_return, ep_len>>)
    /\ n_updates' = n_updates + 1
    /\ sum_len' = sum_len + ep_len
    /\ UNCHANGED <<constructed, curricula_arg, conditions_arg, n_samples>>
    /\ UNCHANGED seqVars

\* a call of the orchestrator's sample(k)
MetaSampleCall(k) ==
    /\ constructed = NoError
    /\ n_samples < MaxSamples
    /\ LET r == MetaSample(MetaSelf, k)
       IN  /\ curriculum_list' = r.self.curriculum_list
           /\ stopping_conditions' = r.self.stopping_conditions
           /\ _curriculum_index' = r.self._curriculum_index
           /\ n_steps' = r.self.n_steps
           /\ total_steps' = r.self.total_steps
           /\ n_episodes' = r.self.n_episodes
           /\ total_episodes' = r.self.total_episodes
           /\ episode_returns' = r.self.episode_returns
           /\ mret' = [op |-> "sample", raised |-> r.raised, k |-> k,
                       value |-> r.value, curriculum |-> r.curriculum]
    /\ n_samples' = n_samples + 1
    /\ UNCHANGED <<constructed, curricula_arg, conditions_arg, n_updates, sum_len,
                   phase_log>>
    /\ UNCHANGED seqVars

Next ==
    \/ \E ep_return \in Returns, ep_len \in EpisodeLens :
          UpdateOnEpisode(ep_return, ep_len)
    \/ \E k \in 1..MaxK : MetaSampleCall(k)

Spec == Init /\ [][Next]_vars

\* The condition strings the two-phase orchestrator of SpecCond is given
EQ == <<"=">>
LT == <<"<">>
GT == <<">">>
OR == <<"|">>
AND == <<"&">>
foo == <<"f", "o", "o">>

ConditionStrings ==
    {\* clauses
     episodes \o GE \o <<"2">>,
     episodes \o LE \o <<"3">>,
     steps \o GE \o <<"3">>,
     steps \o LT \o <<"2">>,
     steps \o GT \o <<"2">>,
     steps \o EQ \o <<"2">>,
     episode_return \o GE \o <<"1">>,
     episode_return \o EQ \o <<"1">>,
     episode_return \o GT \o <<"0", ".", "5">>,
     \* composites
     steps \o GE \o <<"3">> \o OR \o episodes \o GE \o <<"2">>,
     steps \o GE \o <<"3">> \o AND \o episodes \o GE \o <<"2">>,
     steps \o GE \o <<"4">> \o AND \o episodes \o LE \o <<"2">> \o OR
         \o episode_return \o GT \o <<"1">>,
     \* an unrecognized metric, no comparator, too many clauses, '==', no clause
     foo \o GE \o <<"1">>,
     steps,
     steps \o GE \o <<"1">> \o GE \o <<"2">>,
     steps \o EQ \o EQ \o <<"2">>,
     <<>>,
     \* the same inside composites
     steps \o GE \o <<"3">> \o OR \o foo \o GT \o <<"1">>,
     foo \o GT \o <<"1">> \o OR \o episodes \o GE \o <<"1">>,
     episodes \o GE \o <<"2">> \o AND \o foo \o GT \o <<"1">>,
     episodes \o GE \o <<"1">> \o OR \o foo \o GT \o <<"1">>,
     steps \o GE \o <<"3">> \o OR,
     \* thresholds that are no number
     steps \o GE \o <<"x">>,
     steps \o GE}

InitCond ==
    /\ \E condition \in ConditionStrings :
          MetaConstructed(<<PhaseA, PhaseB>>, <<Str(condition)>>)
    /\ NoSeq

SpecCond == InitCond /\ [][Next]_vars

\* ------------------------------------------- SequentialCurriculum: claims
\* num_repeats has one positive entry per task
WellFormed ==
    /\ Len(num_repeats) = Len(task_list)
    /\ \A i \in 1..Len(num_repeats) : num_repeats[i] >= 1

\* one pass over the list: task_list[0] num_repeats[0] times, then task_list[1] ...
RECURSIVE OnePass(_, _)
OnePass(tl, nr) ==
    IF tl = <<>> \/ nr = <<>> THEN <<>>
    ELSE Repeat(Head(tl), Head(nr)) \o OnePass(Tail(tl), Tail(nr))

\* m passes over the list
RECURSIVE Passes(_, _, _)
Passes(tl, nr, m) == IF m <= 0 THEN <<>> ELSE OnePass(tl, nr) \o Passes(tl, nr, m - 1)

\* C1: with repeat_list = False, once a sample call has raised the exhaustion
\* error, every later sample(k), k >= 1, raises it too.
C1_ExhaustionIsSticky ==
    [][(WellFormed /\ ~repeat_list /\ exhausted
        /\ n_calls' = n_calls + 1 /\ ret'.k >= 1)
       => ret'.raised = "ValueError"]_seqVars

\* C2: with repeat_list = False and num_repeats >= 1, each of the first
\* sum(num_repeats) calls of sample(1) on a fresh instance returns one task, and
\* the next call of sample(1) raises the exhaustion error.
C2_ExhaustedAfterSum ==
    (WellFormed /\ ~repeat_list /\ only_single /\ ret.op = "sample")
    => /\ n_calls <= Sum(num_repeats)
          => (ret.raised = NoError /\ Len(ret.value) = 1 /\ n_returned = n_calls)
       /\ n_calls = Sum(num_repeats) + 1
          => (ret.raised = "ValueError" /\ n_returned = n_calls - 1)

C2_Witness ==
    /\ WellFormed /\ ~repeat_list /\ only_single /\ ret.op = "sample"
    /\ Len(task_list) = 2 /\ Sum(num_repeats) = 3
    /\ n_calls = Sum(num_repeats) + 1
    /\ ret.raised = "ValueError"

\* C3: with repeat_list = True, a non-empty task_list and num_repeats >= 1,
\* sample(sum(num_repeats) * m) on a fresh instance returns m passes over the
\* list, each task repeated its count, in the original order.
C3_WholeCycles ==
    (WellFormed /\ repeat_list /\ task_list # <<>> /\ n_calls = 1 /\ ret.op = "sample")
    => \A m \in 1..ret.k :
          ret.k = Sum(num_repeats) * m
          => /\ ret.raised = NoError
             /\ Len(ret.value) = Sum(num_repeats) * m
             /\ ret.value = Passes(task_list, num_repeats, m)

C3_Witness ==
    /\ WellFormed /\ repeat_list /\ n_calls = 1 /\ ret.op = "sample"
    /\ task_list = <<"a", "b">> /\ num_repeats = <<2, 1>>
    /\ ret.k = Sum(num_repeats) * 2
    /\ ret.value = <<"a", "a", "b", "a", "a", "b">>

\* C4: after j returned sample(1) calls on a fresh instance, 0 <= j <=
\* sum(num_repeats), remaining_tasks() is sum(num_repeats) - j: it goes down by
\* one per call and is 0 exactly when the single pass is exhausted.
C4_RemainingCountsDown ==
    (WellFormed /\ only_single /\ n_returned = n_calls /\ n_calls <= Sum(num_repeats))
    => /\ SeqRemainingTasks(Self) =
             [raised |-> NoError, value |-> Sum(num_repeats) - n_calls]
       /\ ret.op = "remaining_tasks"
             => (ret.raised = NoError /\ ret.value = Sum(num_repeats) - n_calls)

C4_Witness ==
    /\ WellFormed /\ only_single /\ n_returned = n_calls
    /\ Len(task_list) = 2 /\ n_calls = 3 /\ Sum(num_repeats) = 3
    /\ ret.op = "remaining_tasks" /\ ret.value = 0

\* -------------------------------------- SequentialMetaCurriculum: claims
\* a step of update_on_episode
IsUpdate == n_updates' = n_updates + 1

\* a step of the orchestrator's sample
IsMetaSample == n_samples' = n_samples + 1

\* C5: the active phase index never decreases and stays within
\* 0 .. len(curriculum_list) - 1, so current_curriculum is always a phase.
C5_PhaseIndexMonotoneBounded ==
    /\ [](constructed = NoError
          => /\ 0 <= _curriculum_index
             /\ _curriculum_index <= Len(curriculum_list) - 1
             /\ At(curriculum_list, _curriculum_index).type = "Curriculum")
    /\ [][_curriculum_index' >= _curriculum_index]_vars

\* the last phase of three is active and has received an update
C5_Witness ==
    /\ constructed = NoError /\ Len(curriculum_list) = 3
    /\ _curriculum_index = 2 /\ mret.op = "update_on_episode" /\ n_episodes >= 1

\* C6: an update moves the phase index by exactly 1 when the active phase is not
\* the last and its stopping condition is true once this episode is in the
\* ledger, and not at all otherwise, whatever the next phase's condition says
\* of the reset counters.
C6_OneTransitionPerUpdate ==
    [][IF IsUpdate
       THEN LET m == [n_steps         |-> n_steps + mret'.ep_len,
                      n_episodes      |-> n_episodes + 1,
                      episode_returns |-> Append(episode_returns, mret'.ep_return)]
                stop == /\ _curriculum_index < Len(curriculum_list) - 1
                        /\ Call(At(stopping_conditions, _curriculum_index), m) = "True"
            IN  _curriculum_index' = _curriculum_index + (IF stop THEN 1 ELSE 0)
       ELSE _curriculum_index' = _curriculum_index]_vars

\* phase 1 of three was just entered and its condition is true of the reset ledger
C6_Witness ==
    /\ constructed = NoError /\ Len(curriculum_list) = 3
    /\ mret.op = "update_on_episode" /\ _curriculum_index = 1 /\ phase_log = <<>>
    /\ Call(At(stopping_conditions, 1), Ledger(MetaSelf)) = "True"

\* C7: n_episodes, n_steps and episode_returns are the count, the summed
\* episode_len and the episode_return list of the updates made since the last
\* transition (or construction); all are (0, 0, []) right after a transition.
C7_LedgerIsPhaseScoped ==
    constructed = NoError
    => /\ n_episodes = Len(phase_log)
       /\ n_steps = Sum([i \in 1..Len(phase_log) |-> phase_log[i][2]])
       /\ episode_returns = [i \in 1..Len(phase_log) |-> phase_log[i][1]]

\* two updates brought a transition, a third one was counted in the new phase
C7_Witness ==
    /\ constructed = NoError /\ _curriculum_index = 1 /\ n_updates = 3
    /\ phase_log = <<<<2, 2>>>> /\ n_episodes = 1 /\ n_steps = 2
    /\ episode_returns = <<2>>

\* the stopping condition "episodes>=N", N a digit
EpisodesGE(N) == Str(episodes \o GE \o <<Digits[N + 1]>>)

C9_TotalsNeverReset ==
    constructed = NoError => (total_episodes = n_updates /\ total_steps = sum_len)

\* totals after two transitions and a sample
C9_Witness ==
    /\ constructed = NoError /\ _curriculum_index = 2 /\ n_updates = 3
    /\ total_episodes = 3 /\ total_steps >= 4 /\ n_episodes < 3 /\ n_samples = 1

\* the clauses of a condition string: its '|' fragments split at '&'
AtomicClauses(str) ==
    LET fragments == SplitOn(str, "|", <<>>)
    IN  UNION {{SplitOn(fragments[i], "&", <<>>)[j] :
                  j \in 1..Len(SplitOn(fragments[i], "&", <<>>))} :
               i \in 1..Len(fragments)}

\* a clause that is not exactly metric/comparator/value with a known metric and
\* a known comparator
BadClause(clause) ==
    LET parts == SplitComparators(clause, <<>>)
    IN  \/ Len(parts) # 3
        \/ parts[1] \notin {steps, episodes, episode_return}
        \/ parts[2] \notin {LT, GT, LE, GE, EQ}

\* a clause whose value is no number
BadThreshold(clause) ==
    LET parts == SplitComparators(clause, <<>>)
    IN  Len(parts) = 3 /\ ~Float(parts[3]).ok

\* C10: a condition string with an unrecognized metric or comparator or a
\* malformed clause, also as one fragment of a composite, makes construction
\* fail; update_on_episode never raises for it.
C10_BadConditionFailsConstruction ==
    /\ constructed = NoError
       => \A i \in 1..Len(conditions_arg) :
             conditions_arg[i].type = "str"
             => \A clause \in AtomicClauses(conditions_arg[i].str) : ~BadClause(clause)
    /\ (/\ constructed = NoError
        /\ mret.op = "update_on_episode"
        /\ \A i \in 1..Len(conditions_arg) :
              conditions_arg[i].type = "str"
              => \A clause \in AtomicClauses(conditions_arg[i].str) : ~BadThreshold(clause))
       => mret.raised = NoError

\* the condition strings among the stopping_conditions given at construction
ConditionStringsGiven ==
    {conditions_arg[i].str :
       i \in {j \in 1..Len(conditions_arg) : conditions_arg[j].type = "str"}}

\* C11: a condition string whose threshold is no numeric literal makes
\* construction fail; update_on_episode never raises for such a threshold.
C11_BadThresholdFailsConstruction ==
    /\ constructed = NoError
       => \A str \in ConditionStringsGiven :
             \A clause \in AtomicClauses(str) : ~BadThreshold(clause)
    /\ (/\ constructed = NoError
        /\ mret.op = "update_on_episode"
        /\ \A str \in ConditionStringsGiven :
              \A clause \in AtomicClauses(str) : ~BadClause(clause))
       => mret.raised = NoError

\* C12: construction with a num_repeats of another length than task_list fails,
\* so every instance has one count per task; an omitted num_repeats gives every
\* task the count 1.
C12_RepeatsLengthValidated ==
    ret.op # "none"
    => /\ Len(num_repeats) = Len(task_list)
       /\ num_repeats_arg = None
          => \A i \in 1..Len(task_list) : num_repeats[i] = 1

\* ------------------------------------ SequentialMetaCurriculum: construction
\* a well-formed stopping condition: a callable, or a string all of whose
\* clauses are <metric><comparator><number>
WellFormedCondition(c) ==
    \/ c.type = "callable"
    \/ /\ c.type = "str"
       /\ \A clause \in AtomicClauses(c.str) :
             ~BadClause(clause) /\ ~BadThreshold(clause)

\* C13: construction with len(stopping_conditions) # len(curriculum_list) - 1
\* (an empty curriculum_list included) raises whatever the entries are, and the
\* failed object takes no call; with matching counts and well-formed entries it
\* succeeds with phase index 0, zero counters and no buffered return.
C13_CountsCheckedAtConstruction ==
    /\ [](/\ Len(conditions_arg) # Len(curricula_arg) - 1
             => constructed = "AssertionError"
          /\ (/\ Len(conditions_arg) = Len(curricula_arg) - 1
              /\ \A i \in 1..Len(curricula_arg) : curricula_arg[i].type = "Curriculum"
              /\ \A i \in 1..Len(conditions_arg) : WellFormedCondition(conditions_arg[i]))
             => /\ constructed = NoError
                /\ curriculum_list # <<>>
                /\ mret.op = "__init__"
                   => /\ _curriculum_index = 0
                      /\ n_steps = 0 /\ total_steps = 0
                      /\ n_episodes = 0 /\ total_episodes = 0
                      /\ episode_returns = <<>>
                      /\ curriculum_list = curricula_arg)
    /\ [][constructed # NoError => UNCHANGED vars]_vars

C13_Witness ==
    /\ mret.op = "__init__"
    /\ Len(curricula_arg) = 2 /\ Len(conditions_arg) = 2
    /\ \A i \in 1..2 : curricula_arg[i].type = "Curriculum"
    /\ \A i \in 1..2 : WellFormedCondition(conditions_arg[i])
    /\ constructed = "AssertionError"

\* ------------------------------- SequentialMetaCurriculum: condition strings
\* the ledger the stopping condition sees in this update: the counters have
\* moved by the reported episode
LedgerAtCheck ==
    [n_steps         |-> n_steps + mret'.ep_len,
     n_episodes      |-> n_episodes + 1,
     episode_returns |-> Append(episode_returns, mret'.ep_return)]

\* the active phase has a stopping condition, given as a well-formed string
ActiveConditionIsString ==
    /\ constructed = NoError
    /\ _curriculum_index < Len(conditions_arg)
    /\ At(conditions_arg, _curriculum_index).type = "str"
    /\ WellFormedCondition(At(conditions_arg, _curriculum_index))

\* the value of one atomic clause on the ledger m
ClauseHolds(clause, m) == Call(_parse_condition_string(clause), m) = "True"

\* OR over the '|' fragments of AND over the '&' clauses of each fragment
OrOfAnds(str, m) ==
    LET fragments == SplitOn(str, "|", <<>>)
    IN  \E i \in 1..Len(fragments) :
           LET clauses == SplitOn(fragments[i], "&", <<>>)
           IN  \A j \in 1..Len(clauses) : ClauseHolds(clauses[j], m)

\* C14: a condition string is an OR of ANDs: an update leaves the phase exactly
\* when some '|' fragment has all its '&' clauses true of the ledger, so that
\* "a&b|c" is (a AND b) OR c.
C14_OrOfAnds ==
    [][(IsUpdate /\ ActiveConditionIsString)
       => /\ mret'.raised = NoError
          /\ (_curriculum_index' = _curriculum_index + 1)
             <=> OrOfAnds(At(conditions_arg, _curriculum_index).str, LedgerAtCheck)]_vars

\* "steps>=4&episodes<=2|episode_return>1" ended the phase by its last fragment
C14_Witness ==
    /\ mret.op = "update_on_episode"
    /\ conditions_arg = <<Str(steps \o GE \o <<"4">> \o AND \o episodes \o LE \o <<"2">>
                              \o OR \o episode_return \o GT \o <<"1">>)>>
    /\ n_updates = 1 /\ sum_len = 1
    /\ _curriculum_index = 1

\* the numeric literals used as thresholds, with the number each one writes
Thresholds ==
    {[str |-> <<"1">>, num |-> 1, den |-> 1],
     [str |-> <<"2">>, num |-> 2, den |-> 1],
     [str |-> <<"3">>, num |-> 3, den |-> 1],
     [str |-> <<"4">>, num |-> 4, den |-> 1],
     [str |-> <<"0", ".", "5">>, num |-> 1, den |-> 2]}

\* the phase-scoped value of a metric at the check of this update, as num/den:
\* the mean return is the sum of the buffered returns over their number
LiveMetric(metric) ==
    IF metric = steps THEN [num |-> n_steps + mret'.ep_len, den |-> 1]
    ELSE IF metric = episodes THEN [num |-> n_episodes + 1, den |-> 1]
    ELSE [num |-> Sum(episode_returns) + mret'.ep_return,
          den |-> Len(episode_returns) + 1]

\* the standard numeric relation x <comparator> v
Relation(x, comparator, v) ==
    CASE comparator = LE -> x.num * v.den <= v.num * x.den
      [] comparator = GE -> x.num * v.den >= v.num * x.den
      [] comparator = EQ -> x.num * v.den =  v.num * x.den
      [] comparator = LT -> x.num * v.den <  v.num * x.den
      [] comparator = GT -> x.num * v.den >  v.num * x.den

\* C15: a clause <metric><comparator><v> is accepted at construction and, at
\* every update, is true exactly when the metric's current phase-scoped value
\* stands in the standard numeric relation to v, "<=" and ">=" taken whole.
C15_ClauseIsNumericRelation ==
    /\ [](\A metric \in {steps, episodes, episode_return},
             comparator \in {LE, GE, EQ, LT, GT}, v \in Thresholds :
             (/\ mret.op # "none"
              /\ Len(curricula_arg) = 2
              /\ \A i \in 1..2 : curricula_arg[i].type = "Curriculum"
              /\ conditions_arg = <<Str(metric \o comparator \o v.str)>>)
             => constructed = NoError)
    /\ [][(/\ IsUpdate
           /\ constructed = NoError
           /\ _curriculum_index < Len(conditions_arg))
          => \A metric \in {steps, episodes, episode_return},
                comparator \in {LE, GE, EQ, LT, GT}, v \in Thresholds :
                At(conditions_arg, _curriculum_index) = Str(metric \o comparator \o v.str)
                => /\ mret'.raised = NoError
                   /\ (_curriculum_index' = _curriculum_index + 1)
                      <=> Relation(LiveMetric(metric), comparator, v)]_vars

\* "steps>=3" was false at the first update and true at the second
C15_Witness ==
    /\ mret.op = "update_on_episode"
    /\ conditions_arg = <<Str(steps \o GE \o <<"3">>)>>
    /\ n_updates = 2 /\ total_steps = 3
    /\ n_steps = 0 /\ _curriculum_index = 1

\* ----------------------------------- SequentialMetaCurriculum: sample, update
\* the counters of the ledger, the phase index and the stopping conditions
LedgerAndIndex ==
    <<_curriculum_index, n_steps, total_steps, n_episodes, total_episodes,
      episode_returns, stopping_conditions>>

\* C16: sample(k) calls sample(k) of the active phase and of no other, returns
\* its tasks in the same order and number, each decoded in the phase's task
\* space and encoded in the orchestrator's, and leaves the phase index and the
\* ledger as they were.
C16_SampleRecodesActivePhase ==
    [][IsMetaSample
       => LET active == At(curriculum_list, _curriculum_index)
              r      == SeqSample(active.self, mret'.k)
          IN  /\ mret'.curriculum = _curriculum_index
              /\ Len(curriculum_list') = Len(curriculum_list)
              /\ \A i \in 0..(Len(curriculum_list) - 1) :
                    At(curriculum_list', i) =
                       IF i = _curriculum_index
                       THEN [active EXCEPT !.self = r.self]
                       ELSE At(curriculum_list, i)
              /\ mret'.raised = r.raised
              /\ r.raised = NoError
                 => /\ Len(mret'.value) = mret'.k
                    /\ \A j \in 1..Len(r.value) :
                          mret'.value[j] =
                             encode(EnvSpace, decode(active.task_space, r.value[j]))
              /\ UNCHANGED LedgerAndIndex]_vars

\* two tasks of the second phase, handed out in the orchestrator's task space
C16_Witness ==
    /\ mret.op = "sample" /\ mret.raised = NoError
    /\ _curriculum_index = 1 /\ total_episodes >= 1
    /\ mret.value = <<encode(EnvSpace, "b"), encode(EnvSpace, "b")>>

\* C17: update_on_episode calls no operation of any sub-curriculum: every
\* sub-curriculum is after an update as it was before, and only the ledger and
\* the phase index of the orchestrator change.
C17_UpdateLeavesSubCurricula ==
    [][IsUpdate
       => /\ curriculum_list' = curriculum_list
          /\ stopping_conditions' = stopping_conditions]_vars

\* an update that left the first phase, whose cursor a sample had moved before
C17_Witness ==
    /\ mret.op = "update_on_episode"
    /\ n_samples = 1
    /\ _curriculum_index = 1
    /\ At(curriculum_list, 0).self._task_index = 1

\* ------------------------------------ SequentialCurriculum: cursor, batching
\* C18: with a non-empty task_list and one positive count per task, after
\* construction and after every sample or remaining_tasks call, returned or
\* raised, 0 <= _task_index <= len(task_list), and 0 <= _repeat_index <
\* num_repeats[_task_index] whenever _task_index < len(task_list);
\* remaining_tasks never moves the cursor.
C18_CursorInvariant ==
    /\ []((ret.op # "none" /\ WellFormed /\ Len(task_list) >= 1)
          => /\ 0 <= _task_index /\ _task_index <= Len(task_list)
             /\ _task_index < Len(task_list)
                => /\ 0 <= _repeat_index
                   /\ _repeat_index < At(num_repeats, _task_index))
    /\ [][ret'.op = "remaining_tasks"
          => UNCHANGED <<_task_index, _repeat_index>>]_vars

\* remaining_tasks called with the cursor inside the second task's repeats
C18_Witness ==
    /\ WellFormed
    /\ ret.op = "remaining_tasks" /\ n_calls >= 1
    /\ _task_index = 1 /\ _repeat_index = 1

\* C19: with repeat_list = True, a non-empty task_list and one positive count
\* per task, sample(a) followed by sample(b) returns, concatenated, what
\* sample(a + b) returns from the same cursor, and ends at the same cursor.
C19_BatchingIndependence ==
    (ret.op # "none" /\ repeat_list /\ WellFormed /\ Len(task_list) >= 1)
    => \A a \in 0..MaxK, b \in 0..MaxK :
          LET first  == SeqSample(Self, a)
              second == SeqSample(first.self, b)
              both   == SeqSample(Self, a + b)
          IN  /\ first.raised = NoError
              /\ second.raised = NoError
              /\ both.raised = NoError
              /\ both.value = first.value \o second.value
              /\ both.self = second.self

\* a repeating sequencer that earlier calls left inside a task's repeats, in
\* its second cycle
C19_Witness ==
    /\ repeat_list /\ WellFormed
    /\ ret.op = "sample" /\ ret.raised = NoError
    /\ n_calls >= 2
    /\ _task_index = 1 /\ _repeat_index = 1

\* C20: with repeat_list = False and one count per task, whenever sample(k)
\* raises the exhaustion error the cursor is afterwards (0, 0), remaining_tasks() is
\* sum(num_repeats), and the caller gets the error (which carries that sum),
\* not the tasks the call had emitted before it.
C20_CursorAfterExhaustion ==
    (/\ ret.op = "sample" /\ ret.raised = "ValueError"
     /\ Len(num_repeats) = Len(task_list))
    => /\ ~repeat_list
       /\ _task_index = 0 /\ _repeat_index = 0
       /\ SeqRemainingTasks(Self) = [raised |-> NoError, value |-> Sum(num_repeats)]
       /\ ret.value = Sum(num_repeats)

\* sample(2) on a one-task list: the first iteration emitted the task, the
\* second raised
C20_Witness ==
    /\ ret.op = "sample" /\ ret.raised = "ValueError" /\ ret.k = 2
    /\ n_calls = 1
    /\ task_list = <<"a">> /\ num_repeats = <<1>>
    /\ _task_index = 0 /\ _repeat_index = 0

====
